---- MODULE Spec2Model ----
(***************************************************************************)
(* A model of pyreactor: Component (src/pyreactor/component.py) and        *)
(* Reaction (src/pyreactor/reaction.py).                                   *)
(*                                                                         *)
(* Numbers.  The program computes with Python floats.  The model computes  *)
(* with exact rationals <<n, d>> (d > 0, lowest terms), so rounding,       *)
(* overflow to inf and underflow to 0 are outside it.  What the model      *)
(* keeps of float arithmetic is what the claims are about: a division by   *)
(* zero raises ZeroDivisionError, np.log of a negative number is nan, nan  *)
(* propagates, and x - x is exactly 0.                                     *)
(*                                                                         *)
(* Units.  Molar amounts and the extent of reaction chi are counted in     *)
(* multiples of epsilon (1e-5 in the source), so epsilon is 1 here and the *)
(* root finder's resolution is one grid step.  Temperatures are multiples  *)
(* of the reference temperature.                                           *)
(***************************************************************************)
EXTENDS Integers, Sequences, FiniteSets, TLC

(***************************************************************************)
(* Bounds of the model.                                                    *)
(***************************************************************************)
MaxCoeff == 1
MaxTempStep == 3
MaxHalfAmount == 4
MaxPressure == 2
MaxK == 2
MaxIter == 2

(***************************************************************************)
(* Exact rational arithmetic.                                              *)
(***************************************************************************)
Abs(x) == IF x < 0 THEN -x ELSE x

RECURSIVE GCD(_, _)
GCD(a, b) == IF b = 0 THEN a ELSE GCD(b, a % b)

Rat(n, d) ==
    LET s == IF d < 0 THEN -1 ELSE 1
        g == GCD(Abs(n), Abs(d))
    IN  <<(s * n) \div g, (s * d) \div g>>

Zero == <<0, 1>>
One == <<1, 1>>
RInt(n) == <<n, 1>>
RAdd(a, b) == Rat(a[1] * b[2] + b[1] * a[2], a[2] * b[2])
RNeg(a) == <<-a[1], a[2]>>
RSub(a, b) == RAdd(a, RNeg(b))
RMul(a, b) == Rat(a[1] * b[1], a[2] * b[2])
RInv(a) == Rat(a[2], a[1])

RECURSIVE CmpPos(_, _, _, _)
\* the order of a/b and c/d (a, c >= 0 and b, d > 0) as -1, 0 or 1, by
\* continued fractions: no product is formed, so nothing overflows
CmpPos(a, b, c, d) ==
    LET qa == a \div b
        qc == c \div d
        ra == a % b
        rc == c % d
    IN  IF qa # qc THEN (IF qa < qc THEN -1 ELSE 1)
        ELSE IF ra = 0 /\ rc = 0 THEN 0
        ELSE IF ra = 0 THEN -1
        ELSE IF rc = 0 THEN 1
        ELSE -CmpPos(b, ra, d, rc)

RCmp(a, b) ==
    IF a[1] >= 0 /\ b[1] >= 0 THEN CmpPos(a[1], a[2], b[1], b[2])
    ELSE IF a[1] < 0 /\ b[1] < 0 THEN CmpPos(-b[1], b[2], -a[1], a[2])
    ELSE IF a[1] < 0 THEN -1
    ELSE 1

RLt(a, b) == RCmp(a, b) < 0
RLe(a, b) == RCmp(a, b) <= 0
RSign(a) == IF a[1] > 0 THEN 1 ELSE IF a[1] < 0 THEN -1 ELSE 0

RECURSIVE IPow(_, _)
IPow(x, n) == IF n = 0 THEN 1 ELSE x * IPow(x, n - 1)

RPow(a, n) == <<IPow(a[1], n), IPow(a[2], n)>>

(***************************************************************************)
(* Python float results: a value q + SUM_t ln[t] * log(t), nan, or a       *)
(* raised exception.  log(t) of distinct arguments t # 1 are kept as       *)
(* independent symbols; log(1) is 0.                                       *)
(***************************************************************************)
\* constants.py (STD_TEMP, R) is not among the sources.  The reference
\* temperature is 298.15 K there; here it is one temperature step of 500, so
\* that t = T / 1000 is 1/2, 1, 3/2, ... and log(t) is 0 at one of them.
STD_TEMP == 500
R == Rat(8314, 1000)

Temps == {k * STD_TEMP : k \in -1..MaxTempStep}
Scaled(T) == Rat(T, 1000)
LnArgs == {Scaled(T) : T \in {U \in Temps : U > 0}} \ {One}
NoLn == [t \in LnArgs |-> Zero]

Val(q, ln) == [kind |-> "value", q |-> q, ln |-> ln]
Num(q) == Val(q, NoLn)
NaN == [kind |-> "nan", q |-> Zero, ln |-> NoLn]
Raised == [kind |-> "error", q |-> Zero, ln |-> NoLn]

FAdd(a, b) ==
    IF a.kind = "error" \/ b.kind = "error" THEN Raised
    ELSE IF a.kind = "nan" \/ b.kind = "nan" THEN NaN
    ELSE Val(RAdd(a.q, b.q), [t \in LnArgs |-> RAdd(a.ln[t], b.ln[t])])

FScale(c, a) ==
    IF a.kind = "error" THEN Raised
    ELSE IF a.kind = "nan" THEN NaN
    ELSE Val(RMul(c, a.q), [t \in LnArgs |-> RMul(c, a.ln[t])])

FSub(a, b) == FAdd(a, FScale(RInt(-1), b))

\* E / x for Python floats: ZeroDivisionError when x is 0.
FDiv(c, x) == IF x[1] = 0 THEN Raised ELSE Num(RMul(c, RInv(x)))

\* np.log(t): nan for t < 0; t = 0 is -inf, which only occurs where the
\* same expression then divides by t and raises.
NpLog(t) ==
    IF t[1] < 0 THEN NaN
    ELSE IF t[1] = 0 THEN Raised
    ELSE IF t = One THEN Num(Zero)
    ELSE Val(Zero, [u \in LnArgs |-> IF u = t THEN One ELSE Zero])

(***************************************************************************)
(* Component (src/pyreactor/component.py).                                 *)
(***************************************************************************)
Orders == {1, 2}

\* (A*t) + (B*t**2/2) + (C*t**3/3) + (D*t**4/4) - (E/t)
EnthalpyTerm(cp, t) ==
    FSub(Num(RAdd(RAdd(RMul(RInt(cp[1]), t),
                       RMul(Rat(cp[2], 2), RPow(t, 2))),
                  RAdd(RMul(Rat(cp[3], 3), RPow(t, 3)),
                       RMul(Rat(cp[4], 4), RPow(t, 4))))),
         FDiv(RInt(cp[5]), t))

\* (A*np.log(t)) + (B*t) + (C*t**2/2) + (D*t**3/3) - (E/(2*t**2))
EntropyTerm(cp, t) ==
    FSub(FAdd(FScale(RInt(cp[1]), NpLog(t)),
              Num(RAdd(RMul(RInt(cp[2]), t),
                       RAdd(RMul(Rat(cp[3], 2), RPow(t, 2)),
                            RMul(Rat(cp[4], 3), RPow(t, 3)))))),
         FDiv(RInt(cp[5]), RMul(RInt(2), RPow(t, 2))))

\* mutant of enthalpy_change: term_2 + term_1
enthalpy_change_Sum(comp, initial_temp, final_temp) ==
    LET t_1 == Scaled(initial_temp)
        t_2 == Scaled(final_temp)
        term_1 == EnthalpyTerm(comp.cp_coeffs, t_1)
        term_2 == EnthalpyTerm(comp.cp_coeffs, t_2)
    IN  FAdd(term_2, term_1)

enthalpy_change(comp, initial_temp, final_temp) ==
    LET t_1 == Scaled(initial_temp)
        t_2 == Scaled(final_temp)
        term_1 == EnthalpyTerm(comp.cp_coeffs, t_1)
        term_2 == EnthalpyTerm(comp.cp_coeffs, t_2)
    IN  FSub(term_2, term_1)

entropy_change(comp, initial_temp, final_temp) ==
    LET t_1 == Scaled(initial_temp)
        t_2 == Scaled(final_temp)
        term_1 == EntropyTerm(comp.cp_coeffs, t_1)
        term_2 == EntropyTerm(comp.cp_coeffs, t_2)
    IN  FSub(term_2, term_1)

(***************************************************************************)
(* Reaction: free energy and equilibrium constant                          *)
(* (src/pyreactor/reaction.py, lines 42-69).                               *)
(***************************************************************************)
RECURSIVE SumSeq(_, _)
\* the running "+=" of a for loop over terms[1..n]
SumSeq(terms, n) ==
    IF n = 0 THEN Num(Zero) ELSE FAdd(SumSeq(terms, n - 1), terms[n])

calculate_rxn_gibbs(self, std_temp) ==
    LET T == self.reac_temp
        reac == self.reactants
        prod == self.products
        ReacH == [i \in 1..Len(reac) |->
                    FScale(RInt(reac[i].order), enthalpy_change(reac[i], T, std_temp))]
        ReacS == [i \in 1..Len(reac) |->
                    FScale(RInt(reac[i].order), entropy_change(reac[i], T, std_temp))]
        ProdH == [i \in 1..Len(prod) |->
                    FScale(RInt(prod[i].order), enthalpy_change(prod[i], std_temp, T))]
        ProdS == [i \in 1..Len(prod) |->
                    FScale(RInt(prod[i].order), entropy_change(prod[i], std_temp, T))]
        rxn_enthalpy ==
            FAdd(FAdd(SumSeq(ReacH, Len(reac)), SumSeq(ProdH, Len(prod))),
                 Num(RInt(self.rxn_std_dh)))
        rxn_entropy ==
            FAdd(FAdd(SumSeq(ReacS, Len(reac)), SumSeq(ProdS, Len(prod))),
                 Num(RInt(self.rxn_std_ds)))
    IN  FSub(rxn_enthalpy, FScale(RInt(T), rxn_entropy))

\* np.exp(x): the result is carried as its exponent x (exp is injective).
calculate_rxn_k(self) ==
    LET rxn_gibbs == calculate_rxn_gibbs(self, STD_TEMP)
        RT == RMul(R, RInt(self.reac_temp))
    IN  IF rxn_gibbs.kind = "error" \/ RT[1] = 0 THEN Raised
        ELSE FScale(RNeg(RInv(RT)), rxn_gibbs)

(***************************************************************************)
(* Reaction: the reaction quotient Q(chi)                                  *)
(* (src/pyreactor/reaction.py, lines 72-112).  Amounts, chi and pressure   *)
(* are integers here (multiples of epsilon, and of the pressure unit).     *)
(***************************************************************************)
\* prod_term = prod_init[index] + comp.order * chi
prod_term(self, i, chi, prod_init) == prod_init[i] + self.products[i].order * chi

\* mutant of reac_term: the sign slip reac_init[index] + comp.order * chi
reac_term_Added(self, i, chi, reac_init) == reac_init[i] + self.reactants[i].order * chi

\* reac_term = reac_init[index] - comp.order * chi
reac_term(self, i, chi, reac_init) == reac_init[i] - self.reactants[i].order * chi

RECURSIVE numerator(_, _, _, _)
numerator(self, n, chi, prod_init) ==
    IF n = 0 THEN 1
    ELSE numerator(self, n - 1, chi, prod_init)
           * IPow(prod_term(self, n, chi, prod_init), self.products[n].order)

RECURSIVE denominator(_, _, _, _)
denominator(self, n, chi, reac_init) ==
    IF n = 0 THEN 1
    ELSE denominator(self, n - 1, chi, reac_init)
           * IPow(reac_term(self, n, chi, reac_init), self.reactants[n].order)

RECURSIVE equil_prod(_, _, _, _)
equil_prod(self, n, chi, prod_init) ==
    IF n = 0 THEN 0
    ELSE equil_prod(self, n - 1, chi, prod_init) + prod_term(self, n, chi, prod_init)

RECURSIVE equil_reac(_, _, _, _)
equil_reac(self, n, chi, reac_init) ==
    IF n = 0 THEN 0
    ELSE equil_reac(self, n - 1, chi, reac_init) + reac_term(self, n, chi, reac_init)

RECURSIVE OrderSum(_, _)
OrderSum(comps, n) == IF n = 0 THEN 0 ELSE OrderSum(comps, n - 1) + comps[n].order

delta_mols(self) ==
    OrderSum(self.products, Len(self.products))
      - OrderSum(self.reactants, Len(self.reactants))

\* base ** e for a Python float base and an integer e: 0.0 to a negative
\* power raises ZeroDivisionError.
PyPow(base, e) ==
    IF e >= 0 THEN Num(RInt(IPow(base, e)))
    ELSE IF base = 0 THEN Raised
    ELSE Num(Rat(1, IPow(base, -e)))

total_mols(self, chi, reac_init, prod_init) ==
    equil_prod(self, Len(self.products), chi, prod_init)
      + equil_reac(self, Len(self.reactants), chi, reac_init)

reaction_equation(self, chi, pressure, reac_init, prod_init) ==
    LET num == numerator(self, Len(self.products), chi, prod_init)
        den == denominator(self, Len(self.reactants), chi, reac_init)
        total_mol_term ==
            PyPow(total_mols(self, chi, reac_init, prod_init), -delta_mols(self))
        pressure_term == PyPow(pressure, delta_mols(self))
    IN  IF total_mol_term.kind = "error" \/ den = 0 THEN Raised
        ELSE Num(RMul(RMul(Rat(num, den), total_mol_term.q), pressure_term.q))

(***************************************************************************)
(* Reaction.calculate_conversion: bracket and residual                     *)
(* (src/pyreactor/reaction.py, lines 133-150).                             *)
(***************************************************************************)
epsilon == 1

SetMax(S) == CHOOSE x \in S : \A y \in S : y <= x
SetMin(S) == CHOOSE x \in S : \A y \in S : x <= y

\* -max(n0 / comp.order for comp, n0 in zip(self.products, prod_init)) + epsilon
\* (the inputs of the model make every n0 / comp.order a whole number)
ChiMin(self, prod_init) ==
    -SetMax({prod_init[i] \div self.products[i].order :
                i \in 1..Len(self.products)}) + epsilon

\* mutant of ChiMax: the margin widens the bracket (+ epsilon), as in the
\* legacy copy src/reaction.py, line 74
ChiMax_Widened(self, reac_init) ==
    SetMin({reac_init[i] \div self.reactants[i].order :
               i \in 1..Len(self.reactants)}) + epsilon

\* min(n0 / comp.order for comp, n0 in zip(self.reactants, reac_init)) - epsilon
ChiMax(self, reac_init) ==
    SetMin({reac_init[i] \div self.reactants[i].order :
               i \in 1..Len(self.reactants)}) - epsilon

\* The residual's values: a finite Q - k_eq, or the penalty 1e10, which is
\* positive and larger than every finite residual of the model.
Finite(q) == [pen |-> FALSE, q |-> q]
Penalty == [pen |-> TRUE, q |-> Zero]

residual(self, a, chi) ==
    LET val == reaction_equation(self, chi, a.pressure, a.reac_init, a.prod_init)
    IN  IF val.kind = "error" THEN Penalty ELSE Finite(RSub(val.q, a.k_eq))

Sgn(f) == IF f.pen THEN 1 ELSE RSign(f.q)

\* f_min * f_max > 0
SameSign(f1, f2) == Sgn(f1) * Sgn(f2) > 0

\* |f1| <= |f2|
AbsLe(f1, f2) ==
    IF f2.pen THEN TRUE
    ELSE IF f1.pen THEN FALSE
    ELSE RLe(<<Abs(f1.q[1]), f1.q[2]>>, <<Abs(f2.q[1]), f2.q[2]>>)

(***************************************************************************)
(* State.  objs are two Reaction objects built with the same arguments;    *)
(* ret is the last finished call on the thermodynamic side; the other      *)
(* variables are the frame of one calculate_conversion call on objs[1].    *)
(***************************************************************************)
VARIABLES objs, ret, pc, args, chi_min, chi_max, f_min, f_max,
          xa, xb, iters, sol, outcome, log

frame == <<pc, args, chi_min, chi_max, f_min, f_max, xa, xb, iters, sol, outcome, log>>
vars == <<objs, ret, pc, args, chi_min, chi_max, f_min, f_max,
          xa, xb, iters, sol, outcome, log>>

\* Component.__init__
Component(order, cp_coeffs) == [order |-> order, cp_coeffs |-> cp_coeffs]

\* Reaction.__init__
Reaction(reactants, products, rxn_std_dh, rxn_std_ds, eos, reac_temp) ==
    [reactants |-> reactants, products |-> products, rxn_std_dh |-> rxn_std_dh,
     eos |-> eos, rxn_std_ds |-> rxn_std_ds, reac_temp |-> reac_temp]

(***************************************************************************)
(* Inputs.                                                                 *)
(***************************************************************************)
\* numbers of reactants and of products of the reactions explored
Shapes == {<<1, 1>>, <<1, 2>>, <<2, 1>>}
ZeroCp == [i \in 1..5 |-> 0]
AmountVals == {0, 2, 2 * MaxHalfAmount}
Pressures == 1..MaxPressure
KVals == {Rat(n, d) : n \in 1..MaxK, d \in 1..MaxK}

ListsOver(S) == [1..1 -> S] \cup [1..2 -> S]
HasShape(x) == <<Len(x[1]), Len(x[2])>> \in Shapes

SolverComponents == {Component(o, ZeroCp) : o \in Orders}

SolverReactions ==
    {Reaction(r, p, 0, 0, "ideal", STD_TEMP) :
        <<r, p>> \in {x \in ListsOver(SolverComponents) \X ListsOver(SolverComponents) :
                        HasShape(x)}}

CallArgs(self) ==
    [pressure : Pressures,
     reac_init : [1..Len(self.reactants) -> AmountVals],
     prod_init : [1..Len(self.products) -> AmountVals],
     k_eq : KVals]

NoArgs == [pressure |-> 1, reac_init |-> <<>>, prod_init |-> <<>>, k_eq |-> One]
NoSol == [converged |-> FALSE, root |-> 0]
NoRet == [op |-> "none", obj |-> 0, temps |-> <<>>, out |-> Num(Zero), err |-> ""]

FrameInit ==
    /\ pc = "idle"
    /\ args = NoArgs
    /\ chi_min = 0
    /\ chi_max = 0
    /\ f_min = Finite(Zero)
    /\ f_max = Finite(Zero)
    /\ xa = 0
    /\ xb = 0
    /\ iters = 0
    /\ sol = NoSol
    /\ outcome = "none"
    /\ log = <<>>

Init ==
    /\ \E rx \in SolverReactions : objs = [o \in 1..2 |-> rx]
    /\ ret = NoRet
    /\ FrameInit

(***************************************************************************)
(* calculate_conversion, step by step                                      *)
(* (src/pyreactor/reaction.py, lines 115-156).                             *)
(***************************************************************************)
self == objs[1]

\* lines 133-135: the call is entered and the bracket is computed
Call ==
    /\ pc = "idle"
    /\ \E a \in CallArgs(self) :
          /\ args' = a
          /\ chi_min' = ChiMin(self, a.prod_init)
          /\ chi_max' = ChiMax(self, a.reac_init)
    /\ pc' = "f_min"
    /\ f_min' = Finite(Zero)
    /\ f_max' = Finite(Zero)
    /\ xa' = 0
    /\ xb' = 0
    /\ iters' = 0
    /\ sol' = NoSol
    /\ outcome' = "none"
    /\ log' = <<>>
    /\ UNCHANGED <<objs, ret>>

\* line 146: f_min = residual(chi_min)
EvalMin ==
    /\ pc = "f_min"
    /\ f_min' = residual(self, args, chi_min)
    /\ pc' = "f_max"
    /\ log' = Append(log, "f_min")
    /\ UNCHANGED <<objs, ret, args, chi_min, chi_max, f_max, xa, xb, iters, sol, outcome>>

\* line 147: f_max = residual(chi_max)
EvalMax ==
    /\ pc = "f_max"
    /\ f_max' = residual(self, args, chi_max)
    /\ pc' = "check"
    /\ log' = Append(log, "f_max")
    /\ UNCHANGED <<objs, ret, args, chi_min, chi_max, f_min, xa, xb, iters, sol, outcome>>

\* lines 149-150: raise RuntimeError("No sign change in bracket ...")
BracketFail ==
    /\ pc = "check"
    /\ SameSign(f_min, f_max)
    /\ outcome' = "bracket_error"
    /\ pc' = "done"
    /\ log' = Append(log, "raise_bracket")
    /\ UNCHANGED <<objs, ret, args, chi_min, chi_max, f_min, f_max, xa, xb, iters, sol>>

\* line 149, the check passes
BracketPass ==
    /\ pc = "check"
    /\ ~SameSign(f_min, f_max)
    /\ pc' = "root_scalar"
    /\ UNCHANGED <<objs, ret, args, chi_min, chi_max, f_min, f_max, xa, xb, iters, sol,
                   outcome, log>>

\* line 152: root_scalar(residual, method="brentq", bracket=[chi_min, chi_max]);
\* brentq returns an endpoint at once when the residual is 0 there.
RootScalar ==
    /\ pc = "root_scalar"
    /\ xa' = chi_min
    /\ xb' = chi_max
    /\ iters' = 0
    /\ log' = Append(log, "root_scalar")
    /\ LET fa == residual(self, args, chi_min)
           fb == residual(self, args, chi_max)
       IN  IF Sgn(fa) = 0
           THEN sol' = [converged |-> TRUE, root |-> chi_min] /\ pc' = "sol"
           ELSE IF Sgn(fb) = 0
           THEN sol' = [converged |-> TRUE, root |-> chi_max] /\ pc' = "sol"
           ELSE sol' = NoSol /\ pc' = "brentq"
    /\ UNCHANGED <<objs, ret, args, chi_min, chi_max, f_min, f_max, outcome>>

Between(x, y) == IF x < y THEN (x + 1)..(y - 1) ELSE (y + 1)..(x - 1)

\* brentq's loop: the bracket [xa, xb] keeps a sign change.  It ends converged
\* when the bracket is within tolerance (here: one grid step) or a residual
\* is exactly 0, and not converged when the iteration budget is used up.
\* Which interior point an iteration tries (secant, inverse quadratic or
\* bisection) is left open.
BrentqConverge ==
    /\ pc = "brentq"
    /\ Abs(xb - xa) <= 1
    /\ \E x \in {xa, xb} :
          /\ \A y \in {xa, xb} : AbsLe(residual(self, args, x), residual(self, args, y))
          /\ sol' = [converged |-> TRUE, root |-> x]
    /\ pc' = "sol"
    /\ UNCHANGED <<objs, ret, args, chi_min, chi_max, f_min, f_max, xa, xb, iters,
                   outcome, log>>

BrentqExhaust ==
    /\ pc = "brentq"
    /\ Abs(xb - xa) > 1
    /\ iters >= MaxIter
    /\ sol' = [converged |-> FALSE, root |-> xb]
    /\ pc' = "sol"
    /\ UNCHANGED <<objs, ret, args, chi_min, chi_max, f_min, f_max, xa, xb, iters,
                   outcome, log>>

BrentqStep ==
    /\ pc = "brentq"
    /\ Abs(xb - xa) > 1
    /\ iters < MaxIter
    /\ iters' = iters + 1
    /\ \E m \in Between(xa, xb) :
          LET fm == residual(self, args, m)
          IN  IF Sgn(fm) = 0
              THEN /\ sol' = [converged |-> TRUE, root |-> m]
                   /\ pc' = "sol"
                   /\ UNCHANGED <<xa, xb>>
              ELSE /\ IF Sgn(fm) = Sgn(residual(self, args, xa))
                      THEN xa' = m /\ xb' = xb
                      ELSE xa' = xa /\ xb' = m
                   /\ UNCHANGED <<sol, pc>>
    /\ UNCHANGED <<objs, ret, args, chi_min, chi_max, f_min, f_max, outcome, log>>

\* mutant of Return: sol.root is returned without looking at sol.converged
Return_Unchecked ==
    /\ pc = "sol"
    /\ outcome' = "returned"
    /\ pc' = "done"
    /\ log' = Append(log, "return")
    /\ UNCHANGED <<objs, ret, args, chi_min, chi_max, f_min, f_max, xa, xb, iters, sol>>

\* lines 153-154: return sol.root
Return ==
    /\ pc = "sol"
    /\ sol.converged
    /\ outcome' = "returned"
    /\ pc' = "done"
    /\ log' = Append(log, "return")
    /\ UNCHANGED <<objs, ret, args, chi_min, chi_max, f_min, f_max, xa, xb, iters, sol>>

\* lines 155-156: raise RuntimeError("Root finding did not converge.")
RaiseNotConverged ==
    /\ pc = "sol"
    /\ ~sol.converged
    /\ outcome' = "nonconv_error"
    /\ pc' = "done"
    /\ log' = Append(log, "raise_not_converged")
    /\ UNCHANGED <<objs, ret, args, chi_min, chi_max, f_min, f_max, xa, xb, iters, sol>>

\* the result or the exception reaches the caller; the frame is gone
Finish ==
    /\ pc = "done"
    /\ pc' = "idle"
    /\ args' = NoArgs
    /\ chi_min' = 0
    /\ chi_max' = 0
    /\ f_min' = Finite(Zero)
    /\ f_max' = Finite(Zero)
    /\ xa' = 0
    /\ xb' = 0
    /\ iters' = 0
    /\ sol' = NoSol
    /\ outcome' = "none"
    /\ log' = <<>>
    /\ UNCHANGED <<objs, ret>>

Next ==
    \/ Call
    \/ EvalMin
    \/ EvalMax
    \/ BracketFail
    \/ BracketPass
    \/ RootScalar
    \/ BrentqConverge
    \/ BrentqExhaust
    \/ BrentqStep
    \/ Return
    \/ RaiseNotConverged
    \/ Finish

Spec == Init /\ [][Next]_vars

(***************************************************************************)
(* calculate_conversion as one call: every outcome the steps above can     *)
(* end in (src/pyreactor/reaction.py, lines 115-156).                      *)
(***************************************************************************)
RECURSIVE BrentqResults(_, _, _, _, _)
BrentqResults(rx, a, x, y, it) ==
    IF Abs(y - x) <= 1
    THEN {[converged |-> TRUE, root |-> z] :
             z \in {w \in {x, y} :
                      \A v \in {x, y} : AbsLe(residual(rx, a, w), residual(rx, a, v))}}
    ELSE IF it >= MaxIter THEN {[converged |-> FALSE, root |-> y]}
    ELSE UNION {LET fm == residual(rx, a, m)
                IN  IF Sgn(fm) = 0 THEN {[converged |-> TRUE, root |-> m]}
                    ELSE IF Sgn(fm) = Sgn(residual(rx, a, x))
                    THEN BrentqResults(rx, a, m, y, it + 1)
                    ELSE BrentqResults(rx, a, x, m, it + 1) :
                m \in Between(x, y)}

root_scalar(rx, a, lo, hi) ==
    IF Sgn(residual(rx, a, lo)) = 0 THEN {[converged |-> TRUE, root |-> lo]}
    ELSE IF Sgn(residual(rx, a, hi)) = 0 THEN {[converged |-> TRUE, root |-> hi]}
    ELSE BrentqResults(rx, a, lo, hi, 0)

calculate_conversion(rx, a) ==
    LET lo == ChiMin(rx, a.prod_init)
        hi == ChiMax(rx, a.reac_init)
    IN  IF SameSign(residual(rx, a, lo), residual(rx, a, hi))
        THEN {[out |-> Raised, err |-> "No sign change in bracket"]}
        ELSE {IF s.converged
              THEN [out |-> Num(RInt(s.root)), err |-> ""]
              ELSE [out |-> Raised, err |-> "Root finding did not converge."] :
              s \in root_scalar(rx, a, lo, hi)}

(***************************************************************************)
(* The thermodynamic side: the caller assigns reac_temp and calls the      *)
(* methods of either object, each call as one step.                        *)
(***************************************************************************)
StdPairs == {<<-2, -1>>}

ThermoComponents ==
    {Component(1, [i \in 1..5 |-> MaxCoeff]), Component(2, [i \in 1..5 |-> i - 3])}

ThermoReactions ==
    {Reaction(x[1], x[2], d[1], d[2], "ideal", STD_TEMP) :
        x \in {y \in ListsOver(ThermoComponents) \X ListsOver(ThermoComponents) :
                 HasShape(y)},
        d \in StdPairs}

ThermoCallArgs(rx) ==
    [pressure : {1},
     reac_init : [1..Len(rx.reactants) -> {2}],
     prod_init : [1..Len(rx.products) -> {0, 2}],
     k_eq : {One}]

ErrOf(out) == IF out.kind = "error" THEN "ZeroDivisionError" ELSE ""

ThermoInit ==
    /\ \E rx \in ThermoReactions : objs = [o \in 1..2 |-> rx]
    /\ ret = NoRet
    /\ FrameInit

\* haber_process.reac_temp = temp (src/example.py, line 28)
SetReacTemp(o, T) ==
    /\ ret = NoRet
    /\ objs' = [objs EXCEPT ![o].reac_temp = T]
    /\ UNCHANGED <<ret, frame>>

CallEnthalpyChange(comp, T1, T2) ==
    LET out == enthalpy_change(comp, T1, T2)
    IN  /\ ret = NoRet
        /\ ret' = [op |-> "enthalpy_change", obj |-> 0, temps |-> <<T1, T2>>,
                   out |-> out, err |-> ErrOf(out)]
        /\ UNCHANGED <<objs, frame>>

CallEntropyChange(comp, T1, T2) ==
    LET out == entropy_change(comp, T1, T2)
    IN  /\ ret = NoRet
        /\ ret' = [op |-> "entropy_change", obj |-> 0, temps |-> <<T1, T2>>,
                   out |-> out, err |-> ErrOf(out)]
        /\ UNCHANGED <<objs, frame>>

\* mutant of CallRxnGibbs: the temperature correction is accumulated into
\* the object's rxn_std_dh instead of a local
CallRxnGibbs_Accumulating(o, std_temp) ==
    LET out == calculate_rxn_gibbs(objs[o], std_temp)
    IN  /\ ret = NoRet
        /\ ret' = [op |-> "calculate_rxn_gibbs", obj |-> o,
                   temps |-> <<objs[o].reac_temp, std_temp>>,
                   out |-> out, err |-> ErrOf(out)]
        /\ objs' = [objs EXCEPT ![o].rxn_std_dh = @ + objs[o].reac_temp - std_temp]
        /\ UNCHANGED frame

CallRxnGibbs(o, std_temp) ==
    LET out == calculate_rxn_gibbs(objs[o], std_temp)
    IN  /\ ret = NoRet
        /\ ret' = [op |-> "calculate_rxn_gibbs", obj |-> o,
                   temps |-> <<objs[o].reac_temp, std_temp>>,
                   out |-> out, err |-> ErrOf(out)]
        /\ UNCHANGED <<objs, frame>>

CallRxnK(o) ==
    LET out == calculate_rxn_k(objs[o])
    IN  /\ ret = NoRet
        /\ ret' = [op |-> "calculate_rxn_k", obj |-> o,
                   temps |-> <<objs[o].reac_temp>>,
                   out |-> out, err |-> ErrOf(out)]
        /\ UNCHANGED <<objs, frame>>

CallReactionEquation(o, chi, a) ==
    LET out == reaction_equation(objs[o], chi, a.pressure, a.reac_init, a.prod_init)
    IN  /\ ret = NoRet
        /\ ret' = [op |-> "reaction_equation", obj |-> o, temps |-> <<>>,
                   out |-> out, err |-> ErrOf(out)]
        /\ UNCHANGED <<objs, frame>>

CallCalculateConversion(o, a) ==
    /\ ret = NoRet
    /\ \E r \in calculate_conversion(objs[o], a) :
          ret' = [op |-> "calculate_conversion", obj |-> o, temps |-> <<>>,
                  out |-> r.out, err |-> r.err]
    /\ UNCHANGED <<objs, frame>>

\* the caller takes the result (or the exception) of the finished call
TakeResult ==
    /\ ret # NoRet
    /\ ret' = NoRet
    /\ UNCHANGED <<objs, frame>>

ComponentsOf(rx) ==
    {rx.reactants[i] : i \in 1..Len(rx.reactants)}
      \cup {rx.products[i] : i \in 1..Len(rx.products)}

ThermoNext ==
    \/ \E o \in 1..2, T \in Temps : SetReacTemp(o, T)
    \/ \E c \in ComponentsOf(objs[1]), T1 \in Temps, T2 \in Temps :
          CallEnthalpyChange(c, T1, T2)
    \/ \E c \in ComponentsOf(objs[1]), T1 \in Temps, T2 \in Temps :
          CallEntropyChange(c, T1, T2)
    \/ \E o \in 1..2, T \in Temps : CallRxnGibbs(o, T)
    \/ \E o \in 1..2 : CallRxnK(o)
    \/ \E o \in 1..2, chi \in {-1, 0, 1} :
          \E a \in ThermoCallArgs(objs[o]) : CallReactionEquation(o, chi, a)
    \/ \E o \in 1..2 :
          \E a \in ThermoCallArgs(objs[o]) : CallCalculateConversion(o, a)
    \/ TakeResult

ThermoSpec == ThermoInit /\ [][ThermoNext]_vars

(***************************************************************************)
(* Claims about calculate_conversion (checked under Spec).                 *)
(***************************************************************************)
Called == pc # "idle"
\* the call has just computed its bracket; args and the bracket then stay
\* as they are until the call ends
BracketComputed == pc = "f_min"
Bracket == chi_min..chi_max
Q(chi) == reaction_equation(self, chi, args.pressure, args.reac_init, args.prod_init)
Reactants == 1..Len(self.reactants)
Products == 1..Len(self.products)

\* Q has no pole on the closed interval between the grid points x and y:
\* no reactant amount and (when the mole number grows with chi) no total
\* amount is zero or changes sign there.
NoPoleBetween(x, y) ==
    /\ \A j \in Reactants :
          reac_term(self, j, x, args.reac_init) * reac_term(self, j, y, args.reac_init) > 0
    /\ delta_mols(self) > 0 =>
          total_mols(self, x, args.reac_init, args.prod_init)
            * total_mols(self, y, args.reac_init, args.prod_init) > 0

\* Q(x) = k_eq within the root finder's tolerance: the residual is 0 at x, or
\* it changes sign continuously between x and a neighbouring grid point.
SolvesWithinTolerance(x) ==
    \/ Sgn(residual(self, args, x)) = 0
    \/ \E y \in {x - 1, x + 1} :
          /\ Sgn(residual(self, args, y)) = -Sgn(residual(self, args, x))
          /\ NoPoleBetween(x, y)

\* C1: a returned chi* lies in [chi_min, chi_max], is not a point where the
\* residual is the penalty, and solves Q(chi*) = k_eq within tolerance (not
\* a mere jump of the residual across zero).
C1_ReturnedRootSolves ==
    outcome = "returned" =>
        /\ chi_min <= sol.root
        /\ sol.root <= chi_max
        /\ ~residual(self, args, sol.root).pen
        /\ SolvesWithinTolerance(sol.root)

\* C2: whenever k_eq exceeds Q(chi_max) or is below Q(chi_min) (a non-finite
\* Q counting as the penalty residual), the call raises the "No sign change
\* in bracket" error: it never gets past the bracket check.
C2_RaisesOutsideRange ==
    (Called /\ (Sgn(residual(self, args, chi_max)) < 0
                  \/ Sgn(residual(self, args, chi_min)) > 0))
      => pc \in {"f_min", "f_max", "check"} \/ outcome = "bracket_error"

\* C3: every chi of the bracket keeps every product's current moles
\* prod_init[i] + order_i * chi strictly positive.
C3_ProductsStayPositive ==
    Called => \A chi \in Bracket : \A i \in Products :
                 prod_term(self, i, chi, args.prod_init) > 0

\* C4: every chi of the bracket keeps every reactant's current moles
\* reac_init[j] - order_j * chi at least order_j * epsilon (so positive).
C4_ReactantsStayPositive ==
    BracketComputed => \A chi \in Bracket : \A j \in Reactants :
                 reac_term(self, j, chi, args.reac_init)
                    >= self.reactants[j].order * epsilon

\* C4's case: two reactants, a bracket of several points, and a reactant
\* that is down to exactly order * epsilon at chi_max.
C4_Witness ==
    /\ Called
    /\ Len(self.reactants) = 2
    /\ chi_min < chi_max
    /\ \E j \in Reactants :
          reac_term(self, j, chi_max, args.reac_init) = self.reactants[j].order * epsilon

\* C8: for one reactant and one product, Q is finite and strictly increasing
\* over the bracket.
C8_QuotientIncreasing ==
    (BracketComputed /\ Len(self.reactants) = 1 /\ Len(self.products) = 1) =>
        \A c1 \in Bracket : \A c2 \in Bracket :
            c1 < c2 => /\ Q(c1).kind = "value"
                       /\ Q(c2).kind = "value"
                       /\ RLt(Q(c1).q, Q(c2).q)

\* C8's case: one reactant, one product of another order (the mole number
\* changes, so the pressure and total-mole terms take part), and a bracket
\* of at least three points at a pressure other than 1.
C8_Witness ==
    /\ Called
    /\ Len(self.reactants) = 1
    /\ Len(self.products) = 1
    /\ delta_mols(self) # 0
    /\ args.pressure > 1
    /\ chi_max - chi_min >= 2

\* C10: once the bracket check has passed, the bracket handed to the root
\* finder is well ordered and non-empty.
C10_BracketWellOrdered ==
    pc \in {"root_scalar", "brentq", "sol"} => chi_min < chi_max

(***************************************************************************)
(* C9: the order of steps and the outcomes of one call.                    *)
(***************************************************************************)
AllowedLogs ==
    {<<"f_min", "f_max", "raise_bracket">>,
     <<"f_min", "f_max", "root_scalar", "return">>,
     <<"f_min", "f_max", "root_scalar", "raise_not_converged">>}

IsPrefix(s, t) == Len(s) <= Len(t) /\ \A i \in 1..Len(s) : s[i] = t[i]

OutcomeOf(step) ==
    CASE step = "raise_bracket" -> "bracket_error"
      [] step = "return" -> "returned"
      [] step = "raise_not_converged" -> "nonconv_error"
      [] OTHER -> "none"

StepOrder ==
    /\ \E t \in AllowedLogs : IsPrefix(log, t)
    /\ pc = "done" => log \in AllowedLogs
    /\ outcome = (IF log = <<>> THEN "none" ELSE OutcomeOf(log[Len(log)]))
    /\ outcome = "returned" => sol.converged
    /\ outcome = "nonconv_error" => ~sol.converged
    /\ (\E i \in 1..Len(log) : log[i] = "root_scalar") => ~SameSign(f_min, f_max)

\* a call that has not ended has a next step: the guards of the steps
\* above, position by position
NextStepExists ==
    CASE pc \in {"f_min", "f_max", "check", "root_scalar", "sol"} -> TRUE
      [] pc = "brentq" -> \/ Abs(xb - xa) <= 1
                          \/ iters >= MaxIter
                          \/ Between(xa, xb) # {}
      [] OTHER -> FALSE

\* C9: both endpoint residuals are evaluated first, the root finder is
\* invoked at most once and only after the bracket check has passed, a
\* result that did not converge is never returned and never retried, and
\* every call ends in exactly one of the three outcomes: a call that has
\* not ended always has a next step, and the root finder's loop stays
\* within its iteration budget.
C9_OneOutcomeInOrder ==
    /\ StepOrder
    /\ iters <= MaxIter
    /\ (Called /\ pc # "done") => NextStepExists

\* C9's case: a call that ended with the non-convergence error.
C9_Witness ==
    /\ pc = "done"
    /\ outcome = "nonconv_error"
    /\ log = <<"f_min", "f_max", "root_scalar", "raise_not_converged">>

(***************************************************************************)
(* Claims about the thermodynamic side (checked under ThermoSpec).         *)
(***************************************************************************)
\* a non-positive temperature took part in the finished call
NonPositiveTemp ==
    CASE ret.op \in {"enthalpy_change", "entropy_change"} ->
             ret.temps[1] <= 0 \/ ret.temps[2] <= 0
      [] ret.op \in {"calculate_rxn_gibbs", "calculate_rxn_k"} -> ret.temps[1] <= 0
      [] OTHER -> FALSE

\* C5: a call with a non-positive temperature (an argument of
\* enthalpy_change / entropy_change, or reac_temp for calculate_rxn_gibbs /
\* calculate_rxn_k) ends in an error and returns no number.
C5_NonPositiveTempRejected == NonPositiveTemp => ret.out.kind = "error"

\* C6: two Reaction objects built with the same arguments and holding the
\* same reac_temp give the same calculate_rxn_k(), whatever assignments
\* and calls each has been through.
C6_KDependsOnlyOnTemp ==
    objs[1].reac_temp = objs[2].reac_temp =>
        calculate_rxn_k(objs[1]) = calculate_rxn_k(objs[2])

\* C6's case: both objects have been moved off their construction
\* temperature to the same new one, and calculate_rxn_k() on the second has
\* just returned a number.
C6_Witness ==
    /\ objs[1].reac_temp = objs[2].reac_temp
    /\ objs[1].reac_temp # STD_TEMP
    /\ ret.op = "calculate_rxn_k"
    /\ ret.obj = 2
    /\ ret.out.kind = "value"
    /\ ret.out = calculate_rxn_k(objs[1])

\* C7: at a (positive) reac_temp equal to the std_temp of the call,
\* calculate_rxn_gibbs returns exactly rxn_std_dh - std_temp * rxn_std_ds.
C7_GibbsAtReference ==
    (ret.op = "calculate_rxn_gibbs" /\ ret.temps[1] = ret.temps[2] /\ ret.temps[1] > 0)
      => ret.out = Num(RSub(RInt(objs[ret.obj].rxn_std_dh),
                            RMul(RInt(ret.temps[2]), RInt(objs[ret.obj].rxn_std_ds))))

\* C7 at every temperature, zero and negative ones included: at a reac_temp
\* equal to the std_temp of the call, calculate_rxn_gibbs returns exactly
\* rxn_std_dh - std_temp * rxn_std_ds.
C7_GibbsAtReference_AnyTemp ==
    (ret.op = "calculate_rxn_gibbs" /\ ret.temps[1] = ret.temps[2])
      => ret.out = Num(RSub(RInt(objs[ret.obj].rxn_std_dh),
                            RMul(RInt(ret.temps[2]), RInt(objs[ret.obj].rxn_std_ds))))

\* C7's case: a reaction of three species, called with std_temp overridden
\* to the reaction temperature.
C7_Witness ==
    /\ ret.op = "calculate_rxn_gibbs"
    /\ ret.temps[1] = ret.temps[2]
    /\ ret.temps[1] > STD_TEMP
    /\ Len(objs[ret.obj].reactants) + Len(objs[ret.obj].products) = 3
    /\ ret.out.kind = "value"

====
